---- MODULE Spec2Model ----
(***************************************************************************)
(* Route-Optimization: sweep clustering (Program/sweep_nn.py) and the      *)
(* RVND local search with its chronological route evaluator                *)
(* (Program/rvnd.py).                                                      *)
(*                                                                         *)
(* Python's None is modelled by the empty sequence <<>> and a present      *)
(* value v by <<v>>.  Python lists are sequences (1-based here, 0-based    *)
(* in the source); dicts are functions or records.                         *)
(***************************************************************************)
EXTENDS Integers, Sequences, FiniteSets, TLC

\* ------------------------------------------------------------------------
\* Bounds of the checked instances
\* ------------------------------------------------------------------------
MaxCustomers == 3
MaxUnits == 1

Demands == {1, 2, 3}
Capacities == {2, 4}
Points == {<<1, 1>>, <<-1, 0>>, <<0, -1>>}
FleetIds == <<1, 2>>

\* ------------------------------------------------------------------------
\* Generic helpers
\* ------------------------------------------------------------------------
None == <<>>

Max(a, b) == IF a >= b THEN a ELSE b

RECURSIVE SumSeq(_)
SumSeq(s) == IF s = <<>> THEN 0 ELSE Head(s) + SumSeq(Tail(s))

\* ------------------------------------------------------------------------
\* sweep_nn.py: build_clusters
\* ------------------------------------------------------------------------
VARIABLES
    instance,           \* the instance record handed to the pipeline
    customer_angles,    \* customers with their angle, sorted by angle
    entry,              \* position of the sweep in customer_angles
    available_units,    \* fleet id -> units still available
    clusters,           \* clusters emitted so far
    cluster_id,
    current_customers,
    current_demand,
    current_vehicle,
    sweep_pc,           \* "idle", "start", "sweep", "done" (returned), "failed" (raised)
    returned            \* None, or <<[clusters, fleet_usage]>> once returned

VARIABLES
    distance_data,      \* nodes (index order), distance and travel-time matrices
    cluster,            \* the cluster handed to nearest_neighbor_route
    route,              \* None, or <<the initial route it returned>>
    evaluated,          \* None, or <<the last result of evaluate_route>>
    eval_pc             \* "idle", "start", "routed", "evaluated"

VARIABLES
    route_in,           \* the route handed to rvnd_route
    baseline,           \* None, or <<evaluate_route of the input sequence>>
    best_solution,
    best_distance,
    improved,
    iterations,
    accepted_move,      \* None, or <<[neighborhood, move]>> of the move last accepted
    final_metrics,      \* None, or <<the metrics rvnd_route returned>>
    rvnd_pc,            \* "idle", "start", "loop", "done"
    run,                \* 1: first call; 2: the call on the first call's output
    first_run           \* None, or <<how the first call ended>>

VARIABLES
    mv_sequence,        \* the sequence a single move is applied to
    mv_applied,         \* None, or <<[neighborhood, move]>> of the move applied
    mv_result,          \* None, or <<the sequence the move produced>>
    mv_pc               \* "idle", "start", "moved"

eval_vars == <<cluster, route, evaluated, eval_pc>>

moves_vars == <<mv_sequence, mv_applied, mv_result, mv_pc>>

rvnd_vars == <<route_in, baseline, best_solution, best_distance, improved,
               iterations, accepted_move, final_metrics, rvnd_pc, run, first_run>>

sweep_frame == <<distance_data, eval_vars, rvnd_vars, moves_vars>>

sweep_vars == <<customer_angles, entry, available_units, clusters, cluster_id,
                current_customers, current_demand, current_vehicle, sweep_pc,
                returned>>

\* math.atan2(dy, dx) in degrees, for offsets on the axes or the diagonals
Atan2Deg(dy, dx) ==
    CASE dy = 0 /\ dx >= 0 -> 0
      [] dy = 0 /\ dx < 0  -> 180
      [] dy > 0 /\ dx > 0  -> 45
      [] dy > 0 /\ dx = 0  -> 90
      [] dy > 0 /\ dx < 0  -> 135
      [] dy < 0 /\ dx < 0  -> -135
      [] dy < 0 /\ dx = 0  -> -90
      [] dy < 0 /\ dx > 0  -> -45

compute_polar_angle(customer, depot) ==
    LET angle == Atan2Deg(customer.y - depot.y, customer.x - depot.x)
    IN  IF angle < 0 THEN angle + 360 ELSE angle

\* list.sort(key=angle): stable, ascending (insertion after the last item
\* whose key is not greater)
RECURSIVE InsertByAngle(_, _)
InsertByAngle(sorted, item) ==
    IF sorted = <<>> THEN <<item>>
    ELSE IF sorted[Len(sorted)].angle <= item.angle THEN Append(sorted, item)
    ELSE Append(InsertByAngle(SubSeq(sorted, 1, Len(sorted) - 1), item),
                sorted[Len(sorted)])

RECURSIVE SortByAngle(_)
SortByAngle(items) ==
    IF items = <<>> THEN <<>>
    ELSE InsertByAngle(SortByAngle(SubSeq(items, 1, Len(items) - 1)),
                       items[Len(items)])

CustomerAngles(customers, depot) ==
    SortByAngle([k \in 1..Len(customers) |->
                    [customer |-> customers[k],
                     angle |-> compute_polar_angle(customers[k], depot)]])

\* mutant: the capacity test is forgotten
FeasibleFleets_unitsOnly(fleets, avail, proposed_demand) ==
    SelectSeq(fleets, LAMBDA fleet : avail[fleet.id] > 0)

\* mutant: the remaining-units test is forgotten
FeasibleFleets_ignoreUnits(fleets, avail, proposed_demand) ==
    SelectSeq(fleets, LAMBDA fleet : fleet.capacity >= proposed_demand)

\* mutant: a type with no unit left still counts as available
FeasibleFleets_zeroUnits(fleets, avail, proposed_demand) ==
    SelectSeq(fleets, LAMBDA fleet :
                 avail[fleet.id] >= 0 /\ fleet.capacity >= proposed_demand)

\* the fleets, in list order, that still have a unit and can carry the demand
FeasibleFleets(fleets, avail, proposed_demand) ==
    SelectSeq(fleets, LAMBDA fleet :
                 avail[fleet.id] > 0 /\ fleet.capacity >= proposed_demand)

\* min(feasible_fleets, key=capacity): the first fleet of minimal capacity
MinByCapacity(feasible) ==
    LET k == CHOOSE k \in 1..Len(feasible) :
                /\ \A m \in 1..Len(feasible) :
                      feasible[k].capacity <= feasible[m].capacity
                /\ \A m \in 1..(k - 1) :
                      feasible[m].capacity > feasible[k].capacity
    IN  feasible[k]

CustomerIdsOf(custs) == [k \in 1..Len(custs) |-> custs[k].id]

NewCluster(cid, vehicle, custs, demand) ==
    [cluster_id |-> cid,
     vehicle_type |-> vehicle.id,
     customer_ids |-> CustomerIdsOf(custs),
     total_demand |-> demand]

UsedUnits(fleets, avail) ==
    [fid \in {fleets[k].id : k \in 1..Len(fleets)} |->
        LET k == CHOOSE k \in 1..Len(fleets) :
                    fleets[k].id = fid /\ \A m \in (k + 1)..Len(fleets) : fleets[m].id # fid
        IN  fleets[k].units - avail[fid]]

\* the instance with customers cs (<<point, demand>> each, ids in input
\* order) and fleet types fl (<<capacity, units>> each), the depot at the origin
SweepInstance(cs, fl) ==
    [depot |-> [x |-> 0, y |-> 0],
     customers |-> [k \in 1..Len(cs) |->
                       [id |-> k, x |-> cs[k][1][1], y |-> cs[k][1][2],
                        demand |-> cs[k][2]]],
     fleet |-> [k \in 1..Len(FleetIds) |->
                       [id |-> FleetIds[k], capacity |-> fl[k][1], units |-> fl[k][2]]]]

SweepInit ==
    /\ customer_angles = <<>>
    /\ entry = 1
    /\ available_units = <<>>
    /\ clusters = <<>>
    /\ cluster_id = 1
    /\ current_customers = <<>>
    /\ current_demand = 0
    /\ current_vehicle = None
    /\ sweep_pc = "start"
    /\ returned = None

\* lines 40-57: sort the customers by polar angle, set up the accumulators
SweepStart ==
    /\ sweep_pc = "start"
    /\ customer_angles' = CustomerAngles(instance.customers, instance.depot)
    /\ available_units' = [fid \in {instance.fleet[k].id : k \in 1..Len(instance.fleet)} |->
                              (CHOOSE f \in {instance.fleet[k] : k \in 1..Len(instance.fleet)} :
                                   f.id = fid).units]
    /\ clusters' = <<>>
    /\ cluster_id' = 1
    /\ current_customers' = <<>>
    /\ current_demand' = 0
    /\ current_vehicle' = None
    /\ entry' = 1
    /\ sweep_pc' = "sweep"
    /\ UNCHANGED <<instance, returned, sweep_frame>>

\* the customer the while loop of lines 62-87 is trying to place
Customer == customer_angles[entry].customer
ProposedDemand == current_demand + Customer.demand
Feasible == FeasibleFleets(instance.fleet, available_units, ProposedDemand)

\* lines 68-73
AddCustomer ==
    /\ sweep_pc = "sweep"
    /\ entry <= Len(customer_angles)
    /\ Feasible # <<>>
    /\ current_customers' = Append(current_customers, Customer)
    /\ current_demand' = ProposedDemand
    /\ current_vehicle' = <<MinByCapacity(Feasible)>>
    /\ entry' = entry + 1
    /\ UNCHANGED <<instance, customer_angles, available_units, clusters,
                   cluster_id, sweep_pc, returned, sweep_frame>>

\* mutant: the customer that overflowed the cluster is not retried
CloseCluster_noRetry ==
    /\ sweep_pc = "sweep"
    /\ entry <= Len(customer_angles)
    /\ Feasible = <<>>
    /\ current_customers # <<>>
    /\ clusters' = Append(clusters,
                          NewCluster(cluster_id, current_vehicle[1],
                                     current_customers, current_demand))
    /\ available_units' = [available_units EXCEPT ![current_vehicle[1].id] = @ - 1]
    /\ cluster_id' = cluster_id + 1
    /\ current_customers' = <<>>
    /\ current_demand' = 0
    /\ current_vehicle' = None
    /\ entry' = entry + 1
    /\ UNCHANGED <<instance, customer_angles, sweep_pc, returned, sweep_frame>>

\* lines 77-87: close the open cluster, then retry the same customer
CloseCluster ==
    /\ sweep_pc = "sweep"
    /\ entry <= Len(customer_angles)
    /\ Feasible = <<>>
    /\ current_customers # <<>>
    /\ clusters' = Append(clusters,
                          NewCluster(cluster_id, current_vehicle[1],
                                     current_customers, current_demand))
    /\ available_units' = [available_units EXCEPT ![current_vehicle[1].id] = @ - 1]
    /\ cluster_id' = cluster_id + 1
    /\ current_customers' = <<>>
    /\ current_demand' = 0
    /\ current_vehicle' = None
    /\ UNCHANGED <<instance, customer_angles, entry, sweep_pc, returned, sweep_frame>>

\* lines 75-76: raise RuntimeError; nothing is returned
RaiseInfeasible ==
    /\ sweep_pc = "sweep"
    /\ entry <= Len(customer_angles)
    /\ Feasible = <<>>
    /\ current_customers = <<>>
    /\ sweep_pc' = "failed"
    /\ UNCHANGED <<instance, customer_angles, entry, available_units, clusters,
                   cluster_id, current_customers, current_demand,
                   current_vehicle, returned, sweep_frame>>

\* lines 88-101: flush the open cluster, compute the fleet usage, return
FlushAndReturn ==
    /\ sweep_pc = "sweep"
    /\ entry > Len(customer_angles)
    /\ LET flush == current_customers # <<>>
           cl == IF flush
                 THEN Append(clusters,
                             NewCluster(cluster_id, current_vehicle[1],
                                        current_customers, current_demand))
                 ELSE clusters
           av == IF flush
                 THEN [available_units EXCEPT ![current_vehicle[1].id] = @ - 1]
                 ELSE available_units
       IN  /\ clusters' = cl
           /\ available_units' = av
           /\ returned' = <<[clusters |-> cl,
                             fleet_usage |-> UsedUnits(instance.fleet, av)]>>
    /\ sweep_pc' = "done"
    /\ UNCHANGED <<instance, customer_angles, entry, cluster_id,
                   current_customers, current_demand, current_vehicle, sweep_frame>>

SweepNext ==
    \/ SweepStart
    \/ AddCustomer
    \/ CloseCluster
    \/ RaiseInfeasible
    \/ FlushAndReturn


\* ------------------------------------------------------------------------
\* rvnd.py: evaluate_route;  sweep_nn.py: nearest_neighbor_route
\* ------------------------------------------------------------------------
\* a clock string "HH:MM" is the pair <<HH, MM>>
parse_time_to_minutes(value) == value[1] * 60 + value[2]

\* minutes_to_clock of rvnd.py on whole minutes (no seconds suffix)
minutes_to_clock(value) == <<value \div 60, value % 60>>

\* minutes_to_clock of sweep_nn.py on whole minutes (no seconds suffix)
sweep_minutes_to_clock(value) == <<value \div 60, value % 60>>

\* {node["id"]: idx for idx, node in enumerate(nodes)}: a later entry wins
node_index(dd, id) ==
    CHOOSE idx \in 1..Len(dd.nodes) :
        /\ dd.nodes[idx].id = id
        /\ \A later \in (idx + 1)..Len(dd.nodes) : dd.nodes[later].id # id

Distance(dd, a, b) == dd.distance_matrix[node_index(dd, a)][node_index(dd, b)]
Travel(dd, a, b) == dd.travel_time_matrix[node_index(dd, a)][node_index(dd, b)]

\* depot.get("service_time", 0)
DepotService(inst) ==
    IF inst.depot.service_time = None THEN 0 ELSE inst.depot.service_time[1]

DepotTw(inst) ==
    [start |-> parse_time_to_minutes(inst.depot.time_window.start),
     end |-> parse_time_to_minutes(inst.depot.time_window.end)]

\* customers = {customer["id"]: customer ...}[node]
CustomerById(inst, node) ==
    LET k == CHOOSE k \in 1..Len(inst.customers) :
                /\ inst.customers[k].id = node
                /\ \A later \in (k + 1)..Len(inst.customers) :
                      inst.customers[later].id # node
    IN  inst.customers[k]

\* rvnd.py lines 77-85: window and service time of the node being visited
NodeTiming(inst, node) ==
    IF node = 0
    THEN [tw_start |-> DepotTw(inst).start, tw_end |-> DepotTw(inst).end,
          service_time |-> DepotService(inst)]
    ELSE LET customer == CustomerById(inst, node)
         IN  [tw_start |-> parse_time_to_minutes(customer.time_window.start),
              tw_end |-> parse_time_to_minutes(customer.time_window.end),
              service_time |-> customer.service_time]

\* mutant: a late arrival is repaired by clamping it to the window end
StopTiming_clamped(tw_start, tw_end, service_time, arrival_no_wait) ==
    LET late == Max(tw_start, arrival_no_wait)
        arrival == IF late > tw_end THEN tw_end ELSE late
    IN  [arrival |-> arrival,
         wait |-> Max(0, tw_start - arrival_no_wait),
         violation |-> Max(0, arrival - tw_end),
         departure |-> arrival + service_time]

\* rvnd.py lines 87-90
StopTiming(tw_start, tw_end, service_time, arrival_no_wait) ==
    LET arrival == Max(tw_start, arrival_no_wait)
    IN  [arrival |-> arrival,
         wait |-> Max(0, tw_start - arrival_no_wait),
         violation |-> Max(0, arrival - tw_end),
         departure |-> arrival + service_time]

\* mutant: the violation of the stop overwrites the sum instead of adding to it
AddViolation_overwrite(violation_sum, violation, next_node) ==
    IF next_node # 0 THEN violation ELSE violation_sum

\* rvnd.py lines 92-94: only customer stops add to the violation sum
AddViolation(violation_sum, violation, next_node) ==
    IF next_node # 0 THEN violation_sum + violation ELSE violation_sum

StopRecord(node, arrival, departure, wait, violation) ==
    [node_id |-> node,
     arrival |-> arrival,
     arrival_str |-> minutes_to_clock(arrival),
     departure |-> departure,
     departure_str |-> minutes_to_clock(departure),
     wait |-> wait,
     violation |-> violation]

\* rvnd.py lines 51, 56, 69-72, 106: the total_distance accumulator of the
\* loop over sequence[1:], which no other accumulator feeds
RECURSIVE DistanceLoop(_, _, _, _)
DistanceLoop(sequence, k, total_distance, dd) ==
    IF k > Len(sequence) THEN total_distance
    ELSE DistanceLoop(sequence, k + 1,
                      total_distance + Distance(dd, sequence[k - 1], sequence[k]), dd)

RouteDistance(sequence, dd) == DistanceLoop(sequence, 2, 0, dd)

\* rvnd.py lines 69-107: one iteration of the loop over sequence[1:], for
\* the timing accumulators and the stops
EvalStep(st, next_node, inst, dd) ==
    LET travel == Travel(dd, st.prev_node, next_node)
        nt == NodeTiming(inst, next_node)
        t == StopTiming(nt.tw_start, nt.tw_end, nt.service_time,
                        st.current_time + travel)
    IN  [prev_node |-> next_node,
         current_time |-> t.departure,
         stops |-> Append(st.stops,
                          StopRecord(next_node, t.arrival, t.departure, t.wait,
                                     t.violation)),
         travel_time_sum |-> st.travel_time_sum + travel,
         service_time_sum |-> IF next_node # 0
                              THEN st.service_time_sum + nt.service_time
                              ELSE st.service_time_sum,
         violation_sum |-> AddViolation(st.violation_sum, t.violation, next_node)]

RECURSIVE EvalLoop(_, _, _, _)
EvalLoop(rest, st, inst, dd) ==
    IF rest = <<>> THEN st
    ELSE EvalLoop(Tail(rest), EvalStep(st, Head(rest), inst, dd), inst, dd)

\* rvnd.py lines 36-121
evaluate_route(sequence, inst, dd) ==
    LET depot_tw == DepotTw(inst)
        start_time == depot_tw.start + DepotService(inst)
        st0 == [prev_node |-> sequence[1],
                current_time |-> start_time,
                stops |-> <<StopRecord(0, depot_tw.start, start_time, 0, 0)>>,
                travel_time_sum |-> 0,
                service_time_sum |-> 0,
                violation_sum |-> 0]
        st == EvalLoop(Tail(sequence), st0, inst, dd)
        total_distance == RouteDistance(sequence, dd)
        time_component == st.travel_time_sum + st.service_time_sum
    IN  [sequence |-> sequence,
         stops |-> st.stops,
         total_distance |-> total_distance,
         total_travel_time |-> st.travel_time_sum,
         total_service_time |-> st.service_time_sum,
         total_time_component |-> time_component,
         total_tw_violation |-> st.violation_sum,
         objective |-> total_distance + time_component + st.violation_sum]

\* mutant: ties go to the higher id
NearestUnvisited_tieHigher(unvisited, current_node, dd) ==
    CHOOSE cid \in unvisited :
        \A other \in unvisited :
            \/ Distance(dd, current_node, cid) < Distance(dd, current_node, other)
            \/ /\ Distance(dd, current_node, cid) = Distance(dd, current_node, other)
               /\ cid >= other

\* sweep_nn.py lines 122-125: nearest unvisited member, ties to the lower id
NearestUnvisited(unvisited, current_node, dd) ==
    CHOOSE cid \in unvisited :
        \A other \in unvisited :
            \/ Distance(dd, current_node, cid) < Distance(dd, current_node, other)
            \/ /\ Distance(dd, current_node, cid) = Distance(dd, current_node, other)
               /\ cid <= other

\* sweep_nn.py lines 118-129
RECURSIVE NNSequence(_, _, _, _)
NNSequence(unvisited, current_node, route_sequence, dd) ==
    IF unvisited = {} THEN Append(route_sequence, 0)
    ELSE LET next_node == NearestUnvisited(unvisited, current_node, dd)
         IN  NNSequence(unvisited \ {next_node}, next_node,
                        Append(route_sequence, next_node), dd)

NNStopRecord(node, arrival, departure, wait, violation) ==
    [node_id |-> node,
     arrival |-> arrival,
     arrival_str |-> sweep_minutes_to_clock(arrival),
     departure |-> departure,
     departure_str |-> sweep_minutes_to_clock(departure),
     wait |-> wait,
     violation |-> violation]

\* sweep_nn.py lines 148-182: one iteration of the loop over route_sequence[1:]
NNStep(st, next_node, inst, dd) ==
    LET travel == Travel(dd, st.prev_node, next_node)
        nt == NodeTiming(inst, next_node)
        arrival_no_wait == st.prev_departure + travel
        arrival == Max(nt.tw_start, arrival_no_wait)
        wait_time == Max(0, nt.tw_start - arrival_no_wait)
        violation == Max(0, arrival - nt.tw_end)
        departure == arrival + nt.service_time
    IN  [prev_node |-> next_node,
         prev_departure |-> departure,
         stops |-> Append(st.stops,
                          NNStopRecord(next_node, arrival, departure, wait_time,
                                       violation)),
         total_distance |-> st.total_distance
                               + Distance(dd, st.prev_node, next_node),
         total_violation |-> IF next_node # 0
                             THEN st.total_violation + violation
                             ELSE st.total_violation]

RECURSIVE NNLoop(_, _, _, _)
NNLoop(rest, st, inst, dd) ==
    IF rest = <<>> THEN st
    ELSE NNLoop(Tail(rest), NNStep(st, Head(rest), inst, dd), inst, dd)

\* sweep_nn.py lines 104-191
nearest_neighbor_route(cl, inst, dd) ==
    LET depot_tw == DepotTw(inst)
        route_sequence == NNSequence({cl.customer_ids[k] : k \in 1..Len(cl.customer_ids)},
                                     0, <<0>>, dd)
        prev_departure == depot_tw.start + DepotService(inst)
        st0 == [prev_node |-> 0,
                prev_departure |-> prev_departure,
                stops |-> <<NNStopRecord(0, depot_tw.start, prev_departure, 0,
                                         Max(0, depot_tw.start - depot_tw.end))>>,
                total_distance |-> 0,
                total_violation |-> 0]
        st == NNLoop(Tail(route_sequence), st0, inst, dd)
    IN  [cluster_id |-> cl.cluster_id,
         vehicle_type |-> cl.vehicle_type,
         sequence |-> route_sequence,
         stops |-> st.stops,
         total_distance |-> st.total_distance,
         total_tw_violation |-> st.total_violation]

\* ------------------------------------------------------------------------
\* rvnd.py: the three neighborhoods and rvnd_route
\* ------------------------------------------------------------------------
\* Moves are pairs <<i, j>> of Python (0-based) positions, as in the source;
\* position i of a Python list is element i + 1 of the sequence here.
max_iterations == 100

NEIGHBORHOODS == <<"two_opt", "swap", "relocate">>

RECURSIVE Flatten(_)
Flatten(ss) == IF ss = <<>> THEN <<>> ELSE Head(ss) \o Flatten(Tail(ss))

RECURSIVE Reverse(_)
Reverse(s) == IF s = <<>> THEN <<>> ELSE Append(Reverse(Tail(s)), Head(s))

\* mutant: the inner range runs to the last position, the closing depot
two_opt_toEnd(sequence) ==
    LET L == Len(sequence)
    IN  Flatten([i \in 1..(L - 3) |-> [k \in 1..(L - 1 - i) |-> <<i, i + k>>]])

\* lines 124-129: i in range(1, L - 2), j in range(i + 1, L - 1)
two_opt(sequence) ==
    LET L == Len(sequence)
    IN  Flatten([i \in 1..(L - 3) |-> [k \in 1..(L - 2 - i) |-> <<i, i + k>>]])

\* lines 132-133
apply_two_opt(sequence, i, j) ==
    SubSeq(sequence, 1, i) \o Reverse(SubSeq(sequence, i + 1, j + 1))
        \o SubSeq(sequence, j + 2, Len(sequence))

\* lines 136-141
swap_moves(sequence) ==
    LET L == Len(sequence)
    IN  Flatten([i \in 1..(L - 3) |-> [k \in 1..(L - 2 - i) |-> <<i, i + k>>]])

\* lines 144-147
apply_swap(sequence, i, j) ==
    [sequence EXCEPT ![i + 1] = sequence[j + 1], ![j + 1] = sequence[i + 1]]

\* lines 150-157: i in range(1, L - 1), j in range(1, L), skipping j = i, i + 1
relocate_moves(sequence) ==
    LET L == Len(sequence)
    IN  Flatten([i \in 1..(L - 2) |->
                    SelectSeq([j \in 1..(L - 1) |-> <<i, j>>],
                              LAMBDA m : m[2] # i /\ m[2] # i + 1)])

\* list.pop(i)
PopAt(list, i) == SubSeq(list, 1, i) \o SubSeq(list, i + 2, Len(list))

\* list.insert(k, node), 0 <= k <= len(list)
InsertAt(list, k, node) ==
    SubSeq(list, 1, k) \o <<node>> \o SubSeq(list, k + 1, Len(list))

\* mutant: the index is not shifted when the target follows the source
apply_relocate_noShift(sequence, i, j) ==
    InsertAt(PopAt(sequence, i), j, sequence[i + 1])

\* lines 160-167
apply_relocate(sequence, i, j) ==
    LET node == sequence[i + 1]
        new_sequence == PopAt(sequence, i)
    IN  IF j > i THEN InsertAt(new_sequence, j - 1, node)
        ELSE InsertAt(new_sequence, j, node)

\* lines 187-194: the candidates of one round, in scanning order
Moves(neighborhood, sequence) ==
    CASE neighborhood = "two_opt" -> two_opt(sequence)
      [] neighborhood = "swap" -> swap_moves(sequence)
      [] neighborhood = "relocate" -> relocate_moves(sequence)

ApplyMove(neighborhood, sequence, move) ==
    CASE neighborhood = "two_opt" -> apply_two_opt(sequence, move[1], move[2])
      [] neighborhood = "swap" -> apply_swap(sequence, move[1], move[2])
      [] neighborhood = "relocate" -> apply_relocate(sequence, move[1], move[2])

Candidates(sequence) ==
    Flatten([n \in 1..Len(NEIGHBORHOODS) |->
                LET ms == Moves(NEIGHBORHOODS[n], sequence)
                IN  [k \in 1..Len(ms) |->
                        [neighborhood |-> NEIGHBORHOODS[n], move |-> ms[k]]]])

\* mutant: a move of equal distance is accepted
Improves_orEqual(new_distance, current_best) == new_distance <= current_best

\* line 197
Improves(new_distance, current_best) == new_distance < current_best

\* lines 196-197: new_metrics["total_distance"], the total_distance that
\* evaluate_route computes for the candidate
NewDistance(new_solution) == RouteDistance(new_solution, distance_data)

CandidateImproves(cand, sequence, current_best) ==
    Improves(NewDistance(ApplyMove(cand.neighborhood, sequence, cand.move)),
             current_best)

\* lines 187-204: the position in scanning order of the first improving
\* candidate, 0 if there is none
FirstImproving(cands, sequence, current_best) ==
    LET accepts(k) == CandidateImproves(cands[k], sequence, current_best)
    IN  IF \E k \in 1..Len(cands) : accepts(k)
        THEN CHOOSE k \in 1..Len(cands) :
                 accepts(k) /\ \A j \in 1..(k - 1) : ~ accepts(j)
        ELSE 0

RvndInit ==
    /\ baseline = None
    /\ best_solution = <<>>
    /\ best_distance = 0
    /\ improved = TRUE
    /\ iterations = 0
    /\ accepted_move = None
    /\ final_metrics = None
    /\ rvnd_pc = "start"
    /\ run = 1
    /\ first_run = None

rvnd_frame == <<instance, distance_data, sweep_vars, eval_vars, moves_vars>>

\* lines 172-181
RvndStart ==
    /\ rvnd_pc = "start"
    /\ LET b == evaluate_route(route_in.sequence, instance, distance_data)
       IN  /\ baseline' = <<b>>
           /\ best_distance' = b.total_distance
    /\ best_solution' = route_in.sequence
    /\ improved' = TRUE
    /\ iterations' = 0
    /\ accepted_move' = None
    /\ rvnd_pc' = "loop"
    /\ UNCHANGED <<route_in, final_metrics, run, first_run, rvnd_frame>>

\* mutant: the round cap is not tested
RvndRound_noCap ==
    /\ rvnd_pc = "loop"
    /\ improved
    /\ iterations' = iterations + 1
    /\ \E cands \in {Candidates(best_solution)} :
          \E k \in {FirstImproving(cands, best_solution, best_distance)} :
             IF k # 0
             THEN \E new_solution \in {ApplyMove(cands[k].neighborhood, best_solution,
                                                 cands[k].move)} :
                     /\ best_solution' = new_solution
                     /\ best_distance' = NewDistance(new_solution)
                     /\ accepted_move' = <<cands[k]>>
                     /\ improved' = TRUE
             ELSE /\ improved' = FALSE
                  /\ UNCHANGED <<best_solution, best_distance, accepted_move>>
    /\ UNCHANGED <<route_in, baseline, final_metrics, rvnd_pc, run, first_run,
                   rvnd_frame>>

\* lines 183-204: one round of the while loop; the first improving candidate
\* in scanning order is accepted and ends the round, else improved stays False
RvndRound ==
    /\ rvnd_pc = "loop"
    /\ improved /\ iterations < max_iterations
    /\ iterations' = iterations + 1
    /\ \E cands \in {Candidates(best_solution)} :
          \E k \in {FirstImproving(cands, best_solution, best_distance)} :
             IF k # 0
             THEN \E new_solution \in {ApplyMove(cands[k].neighborhood, best_solution,
                                                 cands[k].move)} :
                     /\ best_solution' = new_solution
                     /\ best_distance' = NewDistance(new_solution)
                     /\ accepted_move' = <<cands[k]>>
                     /\ improved' = TRUE
             ELSE /\ improved' = FALSE
                  /\ UNCHANGED <<best_solution, best_distance, accepted_move>>
    /\ UNCHANGED <<route_in, baseline, final_metrics, rvnd_pc, run, first_run,
                   rvnd_frame>>

\* mutant: the input sequence is re-evaluated instead of the best one
RvndReturn_evaluatesInput ==
    /\ rvnd_pc = "loop"
    /\ ~ (improved /\ iterations < max_iterations)
    /\ final_metrics' = <<evaluate_route(route_in.sequence, instance, distance_data)>>
    /\ rvnd_pc' = "done"
    /\ UNCHANGED <<route_in, baseline, best_solution, best_distance, improved,
                   iterations, accepted_move, run, first_run, rvnd_frame>>

\* lines 183, 206-207: the loop ends; re-evaluate the best sequence and return
RvndReturn ==
    /\ rvnd_pc = "loop"
    /\ ~ (improved /\ iterations < max_iterations)
    /\ final_metrics' = <<evaluate_route(best_solution, instance, distance_data)>>
    /\ rvnd_pc' = "done"
    /\ UNCHANGED <<route_in, baseline, best_solution, best_distance, improved,
                   iterations, accepted_move, run, first_run, rvnd_frame>>

\* rvnd_route is called again on the sequence it returned
RvndRerun ==
    /\ rvnd_pc = "done"
    /\ run = 1
    /\ first_run' = <<[metrics |-> final_metrics[1], improved |-> improved,
                       iterations |-> iterations]>>
    /\ route_in' = [sequence |-> final_metrics[1].sequence]
    /\ run' = 2
    /\ rvnd_pc' = "start"
    /\ UNCHANGED <<baseline, best_solution, best_distance, improved, iterations,
                   accepted_move, final_metrics, rvnd_frame>>

RvndNext ==
    \/ RvndStart
    \/ RvndRound
    \/ RvndReturn
    \/ RvndRerun

\* ------------------------------------------------------------------------
\* Evaluation of initial routes: the two evaluators on the same sequence
\* ------------------------------------------------------------------------
eval_frame == <<instance, distance_data, sweep_vars, rvnd_vars, moves_vars>>

\* sweep_nn.py line 222: the initial route of the cluster
NearestNeighborRoute ==
    /\ eval_pc = "start"
    /\ route' = <<nearest_neighbor_route(cluster, instance, distance_data)>>
    /\ eval_pc' = "routed"
    /\ UNCHANGED <<cluster, evaluated, eval_frame>>

\* rvnd.py line 228: the baseline metrics of a route's sequence
EvaluateRoute ==
    /\ eval_pc = "routed"
    /\ evaluated' = <<evaluate_route(route[1].sequence, instance, distance_data)>>
    /\ eval_pc' = "evaluated"
    /\ UNCHANGED <<cluster, route, eval_frame>>

\* sequences evaluated on their own: depot-only, a customer visited out of
\* nearest-neighbor order, a return to the depot in mid-route
OtherSequences == {<<0>>, <<0, 2, 1, 0>>, <<0, 1, 0, 2, 0>>}

\* rvnd.py lines 36-121 on a sequence that no construction produced
EvaluateSequence ==
    /\ eval_pc = "start"
    /\ \E sequence \in OtherSequences :
          evaluated' = <<evaluate_route(sequence, instance, distance_data)>>
    /\ eval_pc' = "evaluated"
    /\ UNCHANGED <<cluster, route, eval_frame>>

EvalNext ==
    \/ NearestNeighborRoute
    \/ EvaluateRoute
    \/ EvaluateSequence

\* ------------------------------------------------------------------------
\* The move generators and appliers on their own
\* ------------------------------------------------------------------------
moves_frame == <<instance, distance_data, sweep_vars, eval_vars, rvnd_vars>>

\* one candidate of a neighborhood, generated and applied as in lines 188-194
ApplyCandidate(neighborhood) ==
    /\ mv_pc = "start"
    /\ \E k \in 1..Len(Moves(neighborhood, mv_sequence)) :
          LET move == Moves(neighborhood, mv_sequence)[k]
          IN  /\ mv_applied' = <<[neighborhood |-> neighborhood, move |-> move]>>
              /\ mv_result' = <<ApplyMove(neighborhood, mv_sequence, move)>>
    /\ mv_pc' = "moved"
    /\ UNCHANGED <<mv_sequence, moves_frame>>

TwoOptMove == ApplyCandidate("two_opt")
SwapMove == ApplyCandidate("swap")
RelocateMove == ApplyCandidate("relocate")

MovesNext ==
    \/ TwoOptMove
    \/ SwapMove
    \/ RelocateMove

\* ------------------------------------------------------------------------
\* Instances and specifications
\* ------------------------------------------------------------------------
MaxTravel == 2
MaxInterior == 3
MaxMoveInterior == 4

DistValues == {1, 2}
EvalCustomerIds == <<1, 2>>
CustomerWindows == {[start |-> <<0, 0>>, end |-> <<0, 2>>],
                    [start |-> <<0, 4>>, end |-> <<0, 5>>]}
DepotWindows == {[start |-> <<0, 0>>, end |-> <<0, 5>>],
                 [start |-> <<0, 1>>, end |-> <<1, 0>>],
                 [start |-> <<0, 5>>, end |-> <<0, 0>>]}
ServiceTimes == {0, 1}
Clusters == {<<>>, <<2>>, <<1, 2>>}

Pairs(n) == {ab \in (0..n) \X (0..n) : ab[1] < ab[2]}

\* the symmetric matrix over nodes 0..n with zero diagonal and entries f
SymMatrix(n, f) ==
    [a \in 1..(n + 1) |-> [b \in 1..(n + 1) |->
        IF a = b THEN 0
        ELSE IF a < b THEN f[<<a - 1, b - 1>>] ELSE f[<<b - 1, a - 1>>]]]

NodesUpTo(n) == [k \in 1..(n + 1) |-> [id |-> k - 1]]

\* the timetable with depot window dw and optional depot service time ds,
\* customer windows cw and customer service times sv
EvalInstance(dw, ds, cw, sv) ==
    [depot |-> [x |-> 0, y |-> 0, time_window |-> dw, service_time |-> ds],
     customers |-> [k \in 1..Len(EvalCustomerIds) |->
                       [id |-> EvalCustomerIds[k], time_window |-> cw[k],
                        service_time |-> sv[k]]]]

\* symmetric distances d and travel times t between the depot and the customers
EvalDistanceData(d, t) ==
    [nodes |-> NodesUpTo(Len(EvalCustomerIds)),
     distance_matrix |-> SymMatrix(Len(EvalCustomerIds), d),
     travel_time_matrix |-> SymMatrix(Len(EvalCustomerIds), t)]

\* a fixed roomy timetable for the local search, whose moves look at distance only
RvndInstance(n) ==
    [depot |-> [x |-> 0, y |-> 0,
                time_window |-> [start |-> <<8, 0>>, end |-> <<18, 0>>],
                service_time |-> None],
     customers |-> [k \in 1..n |->
                      [id |-> k,
                       time_window |-> [start |-> <<8, 0>>, end |-> <<9, 0>>],
                       service_time |-> 1]]]

SweepIdle ==
    /\ customer_angles = <<>>
    /\ entry = 1
    /\ available_units = <<>>
    /\ clusters = <<>>
    /\ cluster_id = 1
    /\ current_customers = <<>>
    /\ current_demand = 0
    /\ current_vehicle = None
    /\ sweep_pc = "idle"
    /\ returned = None

EvalIdle ==
    /\ cluster = None
    /\ route = None
    /\ evaluated = None
    /\ eval_pc = "idle"

RvndIdle ==
    /\ route_in = None
    /\ baseline = None
    /\ best_solution = <<>>
    /\ best_distance = 0
    /\ improved = TRUE
    /\ iterations = 0
    /\ accepted_move = None
    /\ final_metrics = None
    /\ rvnd_pc = "idle"
    /\ run = 1
    /\ first_run = None

MovesIdle ==
    /\ mv_sequence = <<>>
    /\ mv_applied = None
    /\ mv_result = None
    /\ mv_pc = "idle"

vars == <<instance, distance_data, sweep_vars, eval_vars, rvnd_vars, moves_vars>>

\* build_clusters on every small instance
InitSweep ==
    /\ \E n \in 0..MaxCustomers :
          \E cs \in [1..n -> Points \X Demands] :
             \E fl \in [1..Len(FleetIds) -> Capacities \X (0..MaxUnits)] :
                instance = SweepInstance(cs, fl)
    /\ distance_data = None
    /\ SweepInit
    /\ EvalIdle
    /\ RvndIdle
    /\ MovesIdle

SpecSweep == InitSweep /\ [][SweepNext]_vars

\* nearest_neighbor_route and evaluate_route on every small timetable
InitEval ==
    /\ \E dw \in DepotWindows, ds \in {None, <<1>>} :
          \E cw \in [1..Len(EvalCustomerIds) -> CustomerWindows] :
             \E sv \in [1..Len(EvalCustomerIds) -> ServiceTimes] :
                instance = EvalInstance(dw, ds, cw, sv)
    /\ \E d \in [Pairs(Len(EvalCustomerIds)) -> DistValues] :
          \E t \in [Pairs(Len(EvalCustomerIds)) -> 1..MaxTravel] :
             distance_data = EvalDistanceData(d, t)
    /\ cluster \in {[cluster_id |-> 1, vehicle_type |-> 1, customer_ids |-> ids] :
                        ids \in Clusters}
    /\ route = None
    /\ evaluated = None
    /\ eval_pc = "start"
    /\ SweepIdle
    /\ RvndIdle
    /\ MovesIdle

SpecEval == InitEval /\ [][EvalNext]_vars

\* rvnd_route on the route 0, 1, .., n, 0 under every small distance matrix
InitRvnd ==
    /\ \E n \in 0..MaxInterior :
          /\ instance = RvndInstance(n)
          /\ \E d \in [Pairs(n) -> DistValues] :
                distance_data = [nodes |-> NodesUpTo(n),
                                 distance_matrix |-> SymMatrix(n, d),
                                 travel_time_matrix |-> SymMatrix(n, d)]
          /\ route_in = [sequence |-> <<0>> \o [k \in 1..n |-> k] \o <<0>>]
    /\ RvndInit
    /\ SweepIdle
    /\ EvalIdle
    /\ MovesIdle

SpecRvnd == InitRvnd /\ [][RvndNext]_vars

\* a 14-customer instance with an asymmetric distance matrix on which the
\* search from 0, 1, .., 14, 0 is still improving after max_iterations rounds
CapDistanceMatrix ==
    <<<< 0, 99, 61, 92, 80, 13, 56, 96, 45, 32, 48, 74, 63, 24, 29>>,
      <<42,  0, 74, 99, 15, 61, 58, 95, 89,  9,  5, 23, 30, 33, 48>>,
      <<95, 11,  0, 88, 43, 57, 11, 55, 20, 75, 42, 18, 31, 18,  0>>,
      <<10, 71, 51,  0, 82, 34, 20,  1, 17, 61, 16, 16, 26,  7, 84>>,
      <<72, 10, 29, 42,  0, 95, 84, 25, 71, 22, 28, 94, 16, 38, 48>>,
      <<39, 82, 26, 86,  0,  0, 23, 79, 59,  5, 13, 25, 50,  1, 35>>,
      <<90, 20, 27, 48, 19, 68,  0, 83, 56,  9, 76, 33, 53, 74, 45>>,
      << 0, 76, 29, 69, 48, 73, 31,  0, 34, 38, 41, 60, 39, 69, 93>>,
      <<29, 71, 40, 81, 11, 98,  0,  7,  0, 84, 57, 36, 91, 55, 82>>,
      <<34, 78, 95, 31, 31, 24, 60, 31, 58,  0, 11, 82,  0, 49, 16>>,
      <<94, 25, 45,  2, 28, 79, 76, 38, 69, 84,  0, 17, 25, 67, 76>>,
      <<32, 13,  0, 68, 49, 24, 25, 98, 93, 40, 16,  0, 12,  0, 29>>,
      <<29, 89,  0, 60, 63, 78, 65,  3,  0, 18, 20, 70,  0, 54, 59>>,
      <<72, 14, 67, 85, 17, 67, 82, 71, 66, 67, 30,  5, 60,  0, 99>>,
      <<86, 29, 48, 29, 46, 41, 33, 78, 52, 60, 13, 43,  3, 37,  0>>>>

InitRvndCapped ==
    /\ LET n == Len(CapDistanceMatrix) - 1
       IN  /\ instance = RvndInstance(n)
           /\ distance_data = [nodes |-> NodesUpTo(n),
                               distance_matrix |-> CapDistanceMatrix,
                               travel_time_matrix |-> CapDistanceMatrix]
           /\ route_in = [sequence |-> <<0>> \o [k \in 1..n |-> k] \o <<0>>]
    /\ RvndInit
    /\ SweepIdle
    /\ EvalIdle
    /\ MovesIdle

\* rvnd_route on the small routes and on the 14-customer one
SpecRvndCap == (InitRvnd \/ InitRvndCapped) /\ [][RvndNext]_vars

\* lines 179-207: the control flow of one call, on its position and its round
\* counter alone: enter the loop, run one more round, leave the loop and return
RvndControl ==
    \/ /\ rvnd_pc = "start"
       /\ rvnd_pc' = "loop"
       /\ iterations' = 0
    \/ /\ rvnd_pc = "loop"
       /\ improved /\ iterations < max_iterations
       /\ rvnd_pc' = "loop"
       /\ iterations' = iterations + 1
    \/ /\ rvnd_pc = "loop"
       /\ ~ (improved /\ iterations < max_iterations)
       /\ rvnd_pc' = "done"
       /\ iterations' = iterations

\* a call of rvnd_route keeps running until it returns (the code is sequential
\* and nothing suspends it); calling it again is the caller's choice
SpecRvndLive ==
    /\ InitRvnd \/ InitRvndCapped
    /\ [][RvndNext]_vars
    /\ WF_<<rvnd_pc, iterations>>(RvndControl)

PermutationsOf(n) ==
    {f \in [1..n -> 1..n] : \A a, b \in 1..n : a # b => f[a] # f[b]}

\* every move of every neighborhood on every route over up to MaxMoveInterior
\* distinct customers
InitMoves ==
    /\ instance = None
    /\ distance_data = None
    /\ \E n \in 0..MaxMoveInterior : \E perm \in PermutationsOf(n) :
          mv_sequence = <<0>> \o perm \o <<0>>
    /\ mv_applied = None
    /\ mv_result = None
    /\ mv_pc = "start"
    /\ SweepIdle
    /\ EvalIdle
    /\ RvndIdle

SpecMoves == InitMoves /\ [][MovesNext]_vars

\* the lists of distinct customer ids among 1..n, in any order
ClusterIdLists(n) ==
    UNION {{ids \in [1..m -> 1..n] : \A a, b \in 1..m : a # b => ids[a] # ids[b]} :
              m \in 0..n}

\* nearest_neighbor_route on every cluster of up to MaxInterior customers
\* under every small distance matrix
InitNN ==
    /\ \E n \in 0..MaxInterior :
          /\ instance = RvndInstance(n)
          /\ \E d \in [Pairs(n) -> DistValues] :
                distance_data = [nodes |-> NodesUpTo(n),
                                 distance_matrix |-> SymMatrix(n, d),
                                 travel_time_matrix |-> SymMatrix(n, d)]
          /\ \E ids \in ClusterIdLists(n) :
                cluster = [cluster_id |-> 1, vehicle_type |-> 1, customer_ids |-> ids]
    /\ route = None
    /\ evaluated = None
    /\ eval_pc = "start"
    /\ SweepIdle
    /\ RvndIdle
    /\ MovesIdle

SpecNN == InitNN /\ [][NearestNeighborRoute]_vars

\* ------------------------------------------------------------------------
\* Properties of build_clusters
\* ------------------------------------------------------------------------
EmittedIds(cls) == Flatten([k \in 1..Len(cls) |-> cls[k].customer_ids])

InputIds == {instance.customers[k].id : k \in 1..Len(instance.customers)}

\* every input id occurs exactly once in ids, and nothing else occurs
ExactlyOnce(ids) ==
    /\ Len(ids) = Len(instance.customers)
    /\ \A k \in 1..Len(ids) : ids[k] \in InputIds
    /\ \A c \in InputIds : Cardinality({k \in 1..Len(ids) : ids[k] = c}) = 1

\* the vehicles of the fleet: <<k, u>> is unit u of the k-th fleet type
FleetUnits ==
    UNION {{<<k, u>> : u \in 1..instance.fleet[k].units} : k \in 1..Len(instance.fleet)}

\* some assignment of the customers to fleet units respects every capacity
HasFeasibleAssignment ==
    LET n == Len(instance.customers)
    IN  \E f \in [1..n -> FleetUnits] :
            \A unit \in FleetUnits :
                SumSeq([k \in 1..n |-> IF f[k] = unit
                                       THEN instance.customers[k].demand
                                       ELSE 0])
                    <= instance.fleet[unit[1]].capacity

\* C1 as stated: for every instance with a feasible assignment, build_clusters
\* returns clusters holding every customer id exactly once
C1_AsStated ==
    (sweep_pc \in {"done", "failed"} /\ HasFeasibleAssignment)
        => (returned # None /\ ExactlyOnce(EmittedIds(returned[1].clusters)))

\* C1 (amended): whenever build_clusters returns, the customer_ids of the
\* returned clusters together hold every input customer id exactly once
C1_Conservation ==
    sweep_pc = "done"
        => (returned # None /\ ExactlyOnce(EmittedIds(returned[1].clusters)))

C1_Witness ==
    /\ sweep_pc = "done"
    /\ Len(instance.customers) = 3
    /\ Len(returned[1].clusters) >= 2
    /\ EmittedIds(returned[1].clusters) # CustomerIdsOf(instance.customers)

DemandOf(cid) ==
    (CHOOSE c \in {instance.customers[k] : k \in 1..Len(instance.customers)} :
        c.id = cid).demand

CapacityOf(fid) ==
    (CHOOSE f \in {instance.fleet[k] : k \in 1..Len(instance.fleet)} :
        f.id = fid).capacity

ClusterWithinCapacity(cl) ==
    /\ cl.total_demand =
          SumSeq([k \in 1..Len(cl.customer_ids) |-> DemandOf(cl.customer_ids[k])])
    /\ cl.total_demand <= CapacityOf(cl.vehicle_type)

\* C2: every emitted cluster, closed on overflow or flushed at the end, has
\* total_demand equal to the sum of its customers' demands and at most the
\* capacity of the fleet type recorded as its vehicle_type
C2_ClusterCapacity ==
    \A k \in 1..Len(clusters) : ClusterWithinCapacity(clusters[k])

\* a returned batch with a cluster closed on overflow and a flushed one, one
\* of them grown to two customers under a larger type than its first pick
C2_Witness ==
    /\ sweep_pc = "done"
    /\ Len(clusters) >= 2
    /\ \E k \in 1..Len(clusters) :
          /\ Len(clusters[k].customer_ids) >= 2
          /\ \E f \in 1..Len(instance.fleet) :
                /\ instance.fleet[f].units > 0
                /\ instance.fleet[f].capacity >= DemandOf(clusters[k].customer_ids[1])
                /\ instance.fleet[f].capacity < CapacityOf(clusters[k].vehicle_type)

\* no fleet type has a unit left and the capacity for the demand
NoFleetFor(demand) ==
    \A k \in 1..Len(instance.fleet) :
        ~ (available_units[instance.fleet[k].id] > 0
           /\ instance.fleet[k].capacity >= demand)

AllUnitsConsumed ==
    \A k \in 1..Len(instance.fleet) : available_units[instance.fleet[k].id] <= 0

CustomerUnplaceable ==
    /\ sweep_pc = "sweep"
    /\ entry <= Len(customer_angles)
    /\ current_customers = <<>>
    /\ NoFleetFor(customer_angles[entry].customer.demand)

\* C3: build_clusters raises exactly when a customer is reached with the
\* cluster empty and no fleet type has a unit left and the capacity for it;
\* with every unit consumed and customers remaining the next step raises;
\* after the raise nothing is returned and no emitted cluster holds the
\* failing customer
C3_FailsExactlyWhenUnplaceable ==
    [][ /\ (sweep_pc = "sweep" /\ sweep_pc' = "failed") => CustomerUnplaceable
        /\ CustomerUnplaceable => sweep_pc' = "failed"
        /\ (sweep_pc = "sweep" /\ entry <= Len(customer_angles) /\ AllUnitsConsumed)
              => sweep_pc' = "failed"
        /\ sweep_pc' = "failed"
              => /\ returned' = None
                 /\ \A k \in 1..Len(EmittedIds(clusters')) :
                       EmittedIds(clusters')[k] # customer_angles'[entry'].customer.id
      ]_vars

\* a raise after the fleet was exhausted by earlier clusters
C3_Witness ==
    /\ sweep_pc = "failed"
    /\ Len(clusters) >= 1
    /\ AllUnitsConsumed
    /\ \E k \in 1..Len(instance.fleet) : instance.fleet[k].units > 0

\* ------------------------------------------------------------------------
\* Properties of rvnd_route
\* ------------------------------------------------------------------------
\* the sum of the distance-matrix entries along the sequence
DistanceOf(sequence) ==
    SumSeq([k \in 1..(Len(sequence) - 1) |->
               distance_data.distance_matrix[sequence[k] + 1][sequence[k + 1] + 1]])

\* C4: every accepted move strictly lowers total_distance against the best
\* sequence it replaces (never an equal one), and the returned route's
\* total_distance is at most that of the input route
C4_AcceptedMovesDecrease ==
    [][ /\ (rvnd_pc = "loop" /\ accepted_move' # accepted_move)
              => /\ DistanceOf(best_solution') < DistanceOf(best_solution)
                 /\ best_distance' < best_distance
        /\ (rvnd_pc = "loop" /\ rvnd_pc' = "done")
              => final_metrics'[1].total_distance <= DistanceOf(route_in.sequence)
      ]_vars

\* a call that accepted at least two moves and returned a shorter route
C4_Witness ==
    /\ rvnd_pc = "done"
    /\ run = 1
    /\ iterations >= 3
    /\ final_metrics[1].total_distance < baseline[1].total_distance

\* C5 as stated: for every input route, the call on the returned sequence
\* accepts no move and returns the same sequence
C5_AsStated ==
    (run = 2 /\ rvnd_pc = "done")
        => /\ accepted_move = None
           /\ iterations = 1
           /\ final_metrics[1].sequence = first_run[1].metrics.sequence

\* C5 (amended): when the search ended with a round that accepted no move
\* (always so when fewer than max_iterations rounds ran), the call on the
\* returned sequence accepts no move and returns the same sequence
C5_LocalOptimumUnlessCapped ==
    (run = 2 /\ rvnd_pc = "done" /\ ~ first_run[1].improved)
        => /\ accepted_move = None
           /\ iterations = 1
           /\ final_metrics[1].sequence = first_run[1].metrics.sequence

\* a second call on the output of a first call that accepted two moves or more
C5_Witness ==
    /\ run = 2
    /\ rvnd_pc = "done"
    /\ ~ first_run[1].improved
    /\ first_run[1].iterations >= 3

Count(sequence, node) == Cardinality({k \in 1..Len(sequence) : sequence[k] = node})

\* same length, depot first and last, the same interior nodes
SameInterior(sequence, input) ==
    /\ Len(sequence) = Len(input)
    /\ sequence[1] = 0
    /\ sequence[Len(sequence)] = 0
    /\ \A k \in 2..(Len(input) - 1) : Count(sequence, input[k]) = Count(input, input[k])
    /\ Count(sequence, 0) = Count(input, 0)

\* C10: every candidate of two-opt, swap and relocate, every current best
\* sequence and the returned sequence have the input's length, keep 0 first
\* and last and hold exactly the input's interior nodes
C10_InteriorOnly ==
    rvnd_pc \in {"loop", "done"}
        => /\ SameInterior(best_solution, route_in.sequence)
           /\ LET cands == Candidates(best_solution)
              IN  \A c \in {cands[k] : k \in 1..Len(cands)} :
                     SameInterior(ApplyMove(c.neighborhood, best_solution, c.move),
                                  route_in.sequence)
           /\ rvnd_pc = "done"
                 => SameInterior(final_metrics[1].sequence, route_in.sequence)

\* a returned sequence that differs from a three-customer input
C10_Witness ==
    /\ rvnd_pc = "done"
    /\ run = 1
    /\ Len(route_in.sequence) = 5
    /\ final_metrics[1].sequence # route_in.sequence

\* ------------------------------------------------------------------------
\* Properties of relocate
\* ------------------------------------------------------------------------
\* the sequence with the node of (0-based) position i moved to position p
MovedTo(sequence, i, p) ==
    [k1 \in 1..Len(sequence) |->
        LET k == k1 - 1
        IN  IF k = p THEN sequence[i + 1]
            ELSE IF i < p /\ i <= k /\ k < p THEN sequence[k1 + 1]
            ELSE IF p < i /\ p < k /\ k <= i THEN sequence[k1 - 1]
            ELSE sequence[k1]]

InteriorPositions(sequence) == 1..(Len(sequence) - 2)

\* C9: on a route with distinct interior nodes every relocate candidate
\* differs from the original and is a single-node relocation; with j > i the
\* node lands at index j - 1; and every relocation of an interior node to
\* another interior position is produced by some candidate
C9_RelocateExact ==
    /\ mv_pc = "moved" /\ mv_applied[1].neighborhood = "relocate"
          => LET i == mv_applied[1].move[1]
                 j == mv_applied[1].move[2]
             IN  /\ mv_result[1] # mv_sequence
                 /\ \E p \in InteriorPositions(mv_sequence) \ {i} :
                       mv_result[1] = MovedTo(mv_sequence, i, p)
                 /\ j > i => mv_result[1] = MovedTo(mv_sequence, i, j - 1)
                 /\ j < i => mv_result[1] = MovedTo(mv_sequence, i, j)
    /\ mv_pc \in {"start", "moved"}
          => LET moves == relocate_moves(mv_sequence)
             IN  \A i \in InteriorPositions(mv_sequence) :
                    \A p \in InteriorPositions(mv_sequence) \ {i} :
                        \E move \in {moves[k] : k \in 1..Len(moves)} :
                            /\ move[1] = i
                            /\ apply_relocate(mv_sequence, i, move[2])
                                  = MovedTo(mv_sequence, i, p)

\* a node moved forward past at least one other node, target j = i + 2 or more
C9_Witness ==
    /\ mv_pc = "moved"
    /\ mv_applied[1].neighborhood = "relocate"
    /\ mv_applied[1].move[2] > mv_applied[1].move[1] + 1
    /\ Len(mv_sequence) >= 5

\* ------------------------------------------------------------------------
\* Properties of evaluate_route and nearest_neighbor_route
\* ------------------------------------------------------------------------
SameStop(a, b) ==
    /\ a.node_id = b.node_id
    /\ a.arrival = b.arrival
    /\ a.departure = b.departure
    /\ a.wait = b.wait
    /\ a.violation = b.violation

\* C6: the stops, total_distance and total_tw_violation of the initial route
\* are those evaluate_route gives for the same sequence, opening stop included
C6_SameAsEvaluator ==
    (eval_pc = "evaluated" /\ route # None)
        => /\ Len(route[1].stops) = Len(evaluated[1].stops)
           /\ \A k \in 1..Len(route[1].stops) :
                 SameStop(route[1].stops[k], evaluated[1].stops[k])
           /\ route[1].total_distance = evaluated[1].total_distance
           /\ route[1].total_tw_violation = evaluated[1].total_tw_violation

\* minutes by which the arrival at stop k is later than the node's window end
Lateness(e, k) ==
    Max(0, e.stops[k].arrival - NodeTiming(instance, e.sequence[k]).tw_end)

\* C7 as stated: the lateness of every stop after the opening one is part of
\* total_tw_violation and of objective
C7_AsStated ==
    evaluated # None
        => LET e == evaluated[1]
           IN  /\ e.total_tw_violation =
                     SumSeq([k \in 1..(Len(e.stops) - 1) |-> Lateness(e, k + 1)])
               /\ e.objective = e.total_distance + e.total_travel_time
                                   + e.total_service_time + e.total_tw_violation

\* C7 (amended): the lateness of every customer stop is part of
\* total_tw_violation and of objective; the lateness of a depot stop is
\* recorded in that stop's violation only
C7_CustomerLatenessCounted ==
    evaluated # None
        => LET e == evaluated[1]
           IN  /\ e.total_tw_violation =
                     SumSeq([k \in 1..(Len(e.stops) - 1) |->
                                IF e.sequence[k + 1] # 0 THEN Lateness(e, k + 1) ELSE 0])
               /\ e.objective = e.total_distance + e.total_travel_time
                                   + e.total_service_time + e.total_tw_violation
               /\ \A k \in 2..Len(e.stops) : e.stops[k].violation = Lateness(e, k)

\* two late customers and a late return to the depot
C7_Witness ==
    /\ evaluated # None
    /\ Len(evaluated[1].stops) = 4
    /\ \A k \in 2..4 : evaluated[1].stops[k].violation > 0

\* C8: the opening stop arrives at the depot window start, departs after the
\* depot service time and does not wait; every later stop has
\* arrival = max(window start, raw arrival), wait = max(0, window start - raw
\* arrival), violation = max(0, arrival - window end) and departure =
\* arrival + service time, raw arrival being the previous departure plus the
\* travel time; the sequence [0] has total_distance 0 and total_travel_time 0
C8_StopTimes ==
    evaluated # None
        => LET e == evaluated[1]
           IN  /\ Len(e.stops) = Len(e.sequence)
               /\ e.stops[1].arrival = parse_time_to_minutes(instance.depot.time_window.start)
               /\ e.stops[1].departure = e.stops[1].arrival + DepotService(instance)
               /\ e.stops[1].wait = 0
               /\ \A k \in 2..Len(e.stops) :
                     LET raw == e.stops[k - 1].departure
                                   + Travel(distance_data, e.sequence[k - 1], e.sequence[k])
                         nt == NodeTiming(instance, e.sequence[k])
                     IN  /\ e.stops[k].node_id = e.sequence[k]
                         /\ e.stops[k].arrival = Max(nt.tw_start, raw)
                         /\ e.stops[k].wait = Max(0, nt.tw_start - raw)
                         /\ e.stops[k].violation = Max(0, e.stops[k].arrival - nt.tw_end)
                         /\ e.stops[k].departure = e.stops[k].arrival + nt.service_time
               /\ e.sequence = <<0>>
                     => /\ e.total_distance = 0
                        /\ e.total_travel_time = 0
                        /\ Len(e.stops) = 1

\* a late customer whose lateness reaches the next customer, which would
\* otherwise have been on time
C8_Witness ==
    /\ evaluated # None
    /\ Len(evaluated[1].stops) = 4
    /\ evaluated[1].stops[2].violation > 0
    /\ evaluated[1].stops[3].violation > 0
    /\ NodeTiming(instance, evaluated[1].sequence[2]).tw_end
          + NodeTiming(instance, evaluated[1].sequence[2]).service_time
          + Travel(distance_data, evaluated[1].sequence[2], evaluated[1].sequence[3])
          <= NodeTiming(instance, evaluated[1].sequence[3]).tw_end

\* ------------------------------------------------------------------------
\* Properties of nearest_neighbor_route
\* ------------------------------------------------------------------------
ClusterIds == {cluster.customer_ids[k] : k \in 1..Len(cluster.customer_ids)}

\* the cluster members not yet in the sequence before position k
UnvisitedBefore(sequence, k) == ClusterIds \ {sequence[j] : j \in 2..(k - 1)}

\* C11: the sequence of nearest_neighbor_route starts and ends with depot 0
\* and holds every customer id of the cluster exactly once in between; each
\* customer appended is an unvisited member at minimum distance from the node
\* appended before it (the depot first), ties going to the lower id
C11_NearestNeighborSequence ==
    route # None =>
        LET sequence == route[1].sequence
            L == Len(sequence)
        IN  /\ L = Cardinality(ClusterIds) + 2
            /\ sequence[1] = 0
            /\ sequence[L] = 0
            /\ \A cid \in ClusterIds :
                  Cardinality({k \in 2..(L - 1) : sequence[k] = cid}) = 1
            /\ \A k \in 2..(L - 1) :
                  /\ sequence[k] \in UnvisitedBefore(sequence, k)
                  /\ \A other \in UnvisitedBefore(sequence, k) :
                        \/ distance_data.distance_matrix[sequence[k - 1] + 1][sequence[k] + 1]
                              < distance_data.distance_matrix[sequence[k - 1] + 1][other + 1]
                        \/ /\ distance_data.distance_matrix[sequence[k - 1] + 1][sequence[k] + 1]
                                = distance_data.distance_matrix[sequence[k - 1] + 1][other + 1]
                           /\ sequence[k] <= other

\* a route over three customers: customer 3 was strictly nearest to the depot,
\* then customers 1 and 2 were equally near and the lower id was taken
C11_Witness ==
    /\ route # None
    /\ route[1].sequence = <<0, 3, 1, 2, 0>>
    /\ distance_data.distance_matrix[4][2] = distance_data.distance_matrix[4][3]
    /\ distance_data.distance_matrix[1][4] < distance_data.distance_matrix[1][2]

\* ------------------------------------------------------------------------
\* Termination of rvnd_route
\* ------------------------------------------------------------------------
\* a round of the search: it counts as one iteration and accepts at most one
\* move, the only change of the best sequence
RoundStep ==
    (rvnd_pc = "loop" /\ rvnd_pc' = "loop")
        => /\ improved
           /\ iterations' = iterations + 1
           /\ iterations' <= max_iterations
           /\ improved' = (best_solution' # best_solution)
           /\ improved' => best_solution' =
                  ApplyMove(accepted_move'[1].neighborhood, best_solution,
                            accepted_move'[1].move)

\* the search ends at a round that accepted nothing or at the round cap, with
\* one evaluation of the final sequence
ReturnStep ==
    /\ (rvnd_pc = "loop" /\ (~ improved \/ iterations = max_iterations))
          => (rvnd_pc' = "done" /\ iterations' = iterations)
    /\ (rvnd_pc = "loop" /\ rvnd_pc' = "done")
          => /\ ~ improved \/ iterations = max_iterations
             /\ final_metrics' =
                   <<evaluate_route(best_solution, instance, distance_data)>>

\* C12: rvnd_route always terminates: a round accepts at most one move, the
\* search ends at the first round that accepts none and after max_iterations
\* rounds at the latest, then the final sequence is evaluated once and returned
C12_Terminates ==
    /\ [](iterations <= max_iterations)
    /\ [][RoundStep /\ ReturnStep]_vars
    /\ (rvnd_pc = "start") ~> (rvnd_pc = "done")

\* a call that returned at the round cap while its last round still accepted
\* a move
C12_Witness ==
    /\ rvnd_pc = "done"
    /\ run = 1
    /\ iterations = max_iterations
    /\ improved
    /\ final_metrics # None

\* ------------------------------------------------------------------------
\* Fleet units in build_clusters
\* ------------------------------------------------------------------------
FleetTypeIds == {instance.fleet[k].id : k \in 1..Len(instance.fleet)}

UnitsOf(fid) ==
    (CHOOSE f \in {instance.fleet[k] : k \in 1..Len(instance.fleet)} :
        f.id = fid).units

ClustersOfType(cls, fid) ==
    Cardinality({k \in 1..Len(cls) : cls[k].vehicle_type = fid})

\* during and after the sweep: no count is negative, the units taken from a
\* type are the clusters emitted with it, and the type of the open cluster
\* still has a unit
UnitsInHand ==
    sweep_pc \in {"sweep", "failed", "done"} =>
        /\ \A fid \in FleetTypeIds :
              /\ available_units[fid] >= 0
              /\ UnitsOf(fid) - available_units[fid] = ClustersOfType(clusters, fid)
        /\ (sweep_pc = "sweep" /\ current_vehicle # None)
              => available_units[current_vehicle[1].id] >= 1

\* the returned fleet_usage counts the returned clusters of each type and
\* stays within the configured units
UsageReturned ==
    returned # None =>
        \A fid \in FleetTypeIds :
            /\ returned[1].fleet_usage[fid] = ClustersOfType(returned[1].clusters, fid)
            /\ returned[1].fleet_usage[fid] <= UnitsOf(fid)

\* a count changes only when a cluster is emitted: one unit less for the type
\* of that cluster and no change for the others
UnitTakenOnEmit ==
    (sweep_pc = "sweep" /\ available_units' # available_units)
        => /\ Len(clusters') = Len(clusters) + 1
           /\ \A fid \in FleetTypeIds :
                 available_units'[fid] =
                     IF fid = clusters'[Len(clusters')].vehicle_type
                     THEN available_units[fid] - 1
                     ELSE available_units[fid]

\* C13: fleet units are never over-consumed: every remaining count stays >= 0
\* throughout the sweep, a unit is taken only when a cluster is closed or
\* flushed, the type of the open cluster still has a unit, and the returned
\* fleet_usage of a type is the number of its clusters, at most its units
C13_UnitsNeverOverConsumed ==
    /\ [](UnitsInHand /\ UsageReturned)
    /\ [][UnitTakenOnEmit]_vars

\* a returned batch of two clusters or more that used up every unit of every
\* fleet type
C13_Witness ==
    /\ sweep_pc = "done"
    /\ returned # None
    /\ Len(returned[1].clusters) >= 2
    /\ \A fid \in FleetTypeIds :
          /\ UnitsOf(fid) >= 1
          /\ returned[1].fleet_usage[fid] = UnitsOf(fid)

====
